---- MODULE Spec2Model ----
(***************************************************************************)
(* Receipt pipeline of the finance backend: POST /receipts/process,        *)
(* POST /receipts/confirm (app/routers/receipts.py) and the expense        *)
(* endpoints that share the table and the upload directory                 *)
(* (app/routers/expenses.py), over the Expense table                       *)
(* (app/models/expense.py).                                                *)
(*                                                                         *)
(* Each user runs one request at a time; requests of different users       *)
(* interleave at the points where a handler touches the database or an     *)
(* external service.  Outcomes of the database driver, the OCR engine and  *)
(* the language model are chosen by the environment in the step that       *)
(* calls them.  `previews` is a history of the responses process has       *)
(* returned; no handler reads it.  `limit` is the number of requests that  *)
(* may start in the behaviour.  `budgets` is the Budget table and `breq`   *)
(* the upsert_budget requests in progress (app/routers/budgets.py), of     *)
(* which one user may have several at a time.                              *)
(***************************************************************************)
EXTENDS Integers, Sequences, FiniteSets, TLC

VARIABLES files, dirs, expenses, req, nextId, clock, previews, limit,
          budgets, breq

vars == <<files, dirs, expenses, req, nextId, clock, previews, limit,
          budgets, breq>>

----------------------------------------------------------------------------
(* Bounds of the model *)

\* number of requests started in one behaviour
MaxCalls == 2
\* number of items in one confirm payload
MaxItems == 2

----------------------------------------------------------------------------
(* Program constants *)

MAX_UPLOAD_BYTES == 10 * 1024 * 1024

ALLOWED_CONTENT_TYPES == {"image/jpeg", "image/png"}

EXPENSE_ALLOWED_CONTENT_TYPES == {"image/jpeg", "image/png", "application/pdf"}

\* number of iterations of the commit loop: range(3)
CommitAttempts == 3

\* time.sleep(0.25 * (attempt + 1)), in hundredths of a second
BackoffUnit == 25

----------------------------------------------------------------------------
(* Users and paths *)

\* str(current_user.id) of the authenticated users
Users == {"u1", "u2"}

\* working directory of the server process, as absolute segments
Cwd == <<"srv">>

\* Path(s): a path is absolute or relative and a sequence of segments;
\* pathlib drops "." segments on construction and keeps ".."
RECURSIVE DropDots(_)
DropDots(segs) ==
    IF segs = <<>> THEN <<>>
    ELSE IF Head(segs) = "." THEN DropDots(Tail(segs))
    ELSE <<Head(segs)>> \o DropDots(Tail(segs))

Path(abs, segs) == [abs |-> abs, segs |-> DropDots(segs)]

\* a / b
Join(p, seg) == [p EXCEPT !.segs = p.segs \o <<seg>>]

\* lexical part of Path.resolve(): ".." removes the last segment and stays
\* at the root when there is none (no symbolic link exists under uploads/)
RECURSIVE Normalize(_, _)
Normalize(acc, segs) ==
    IF segs = <<>> THEN acc
    ELSE IF Head(segs) = ".." THEN
        Normalize(IF acc = <<>> THEN <<>> ELSE SubSeq(acc, 1, Len(acc) - 1),
                  Tail(segs))
    ELSE IF Head(segs) = "." THEN Normalize(acc, Tail(segs))
    ELSE Normalize(acc \o <<Head(segs)>>, Tail(segs))

\* Path.resolve(): absolute segments of the path; relative to Cwd
Resolve(p) == Normalize(IF p.abs THEN <<>> ELSE Cwd, p.segs)

\* a in b.parents
InParents(a, b) == Len(a) < Len(b) /\ SubSeq(b, 1, Len(a)) = a

\* Path("uploads").resolve()
UploadsRoot == Resolve(Path(FALSE, <<"uploads">>))

\* (Path("uploads") / str(current_user.id)).resolve()
UserDir(u) == Resolve(Join(Path(FALSE, <<"uploads">>), u))

\* no test of the file at all
NoFileTest(resolved) == TRUE

\* resolved.exists() and resolved.is_file()
IsFile(resolved) == resolved \in files

----------------------------------------------------------------------------
(* The Expense table and its schemas *)

NoDate == -1
NoTime == -1

CAD == <<"C", "A", "D">>

UpperLetters ==
    {"A", "B", "C", "D", "E", "F", "G", "H", "I", "J", "K", "L", "M",
     "N", "O", "P", "Q", "R", "S", "T", "U", "V", "W", "X", "Y", "Z"}

\* columns declared by class Expense(SQLModel, table=True)
ExpenseFields ==
    {"id", "user_id", "amount", "currency", "description", "category",
     "expense_date", "created_at", "updated_at", "deleted_at"}

\* Expense(**kwargs): a table model keeps the declared fields and drops
\* every other keyword
Expense(kwargs) == [f \in (DOMAIN kwargs) \cap ExpenseFields |-> kwargs[f]]

\* fields read from an Expense to build an ExpenseRead
ExpenseReadFields ==
    {"id", "user_id", "amount", "currency", "description", "category",
     "expense_date", "receipt_path", "created_at", "updated_at", "deleted_at"}

\* exp.<name> for every name of ExpenseRead: AttributeError when the object
\* has no such attribute
CanRead(exp) == ExpenseReadFields \subseteq DOMAIN exp

\* ReceiptConfirmItem: amount > 0, currency ^[A-Z]{3}$, description of
\* 1..255 characters, category of 1..50 characters
ValidConfirmItem(item) ==
    /\ item.amount > 0
    /\ Len(item.currency) = 3
    /\ \A k \in 1..Len(item.currency) : item.currency[k] \in UpperLetters
    /\ Len(item.description) >= 1 /\ Len(item.description) <= 255
    /\ Len(item.category) >= 1 /\ Len(item.category) <= 50

\* date.today() at time t; datetime.utcnow() is t itself.  The clock
\* advances when a request starts, so the time of a request is the value of
\* the clock after its first step.
TicksPerDay == 1
Today(t) == t \div TicksPerDay

----------------------------------------------------------------------------
(* Requests *)

NoPath == Path(FALSE, <<>>)

\* ExpenseUpdate(): every field is None; `fields` names the fields of a
\* body that are not None
NoChanges ==
    [fields |-> {}, amount |-> 0, currency |-> CAD, description |-> "",
     category |-> "", expense_date |-> NoDate]

IdleReq ==
    [op |-> "none", pc |-> "idle", outcome |-> "none", detail |-> "",
     \* confirm
     path |-> NoPath, items |-> <<>>, created |-> <<>>, pending |-> <<>>,
     attempt |-> 0, attempts |-> 0, sleeps |-> <<>>, committed |-> FALSE,
     result |-> <<>>,
     \* process and upload_receipt
     ctype |-> "", size |-> 0, client_name |-> "", receipt_path |-> NoPath,
     writes |-> 0, stages |-> <<>>, ocr_calls |-> <<>>, ocr_errors |-> <<>>,
     text |-> <<>>, cands |-> <<>>, llm_calls |-> <<>>, reply |-> "none",
     category_map |-> <<>>, preview |-> <<>>,
     \* the deskew of the normalizer
     foreground |-> FALSE, rect_angle |-> 0, rotated |-> FALSE,
     rotation |-> 0,
     \* the expense endpoints
     expense_id |-> 0, changes |-> NoChanges]

\* a user starts a request when the previous one has returned; the users
\* are interchangeable, so the one who sends the first request of a
\* behaviour is called u1
CanStart(u) ==
    /\ req[u].pc \in {"idle", "done"}
    /\ clock < limit
    /\ (clock = 0 => u = "u1")

\* the handler returns (or raises) with the given outcome
Finish(r, outcome) == [r EXCEPT !.pc = "done", !.outcome = outcome]

\* the database sessions of the upsert_budget requests: two requests, of
\* one user or of two, may be in progress at the same time
Sessions == {"s1", "s2"}

IdleBudgetReq ==
    [user |-> "none", pc |-> "idle", outcome |-> "none", month |-> <<>>,
     category |-> "", amount |-> 0, now |-> NoTime, existing |-> <<>>,
     result |-> <<>>, seq |-> 0]

\* the state after start-up: empty tables, an empty uploads directory
InitWith(n) ==
    /\ files = {}
    /\ dirs = {}
    /\ expenses = {}
    /\ req = [u \in Users |-> IdleReq]
    /\ nextId = 1
    /\ clock = 0
    /\ previews = {}
    /\ limit = n
    /\ budgets = {}
    /\ breq = [s \in Sessions |-> IdleBudgetReq]

Init == InitWith(MaxCalls)

----------------------------------------------------------------------------
(* POST /receipts/confirm *)

\* the first check of confirm_receipt (400 when it fails)
UnderUploads(resolved) ==
    InParents(UploadsRoot, resolved) \/ resolved = UploadsRoot

\* the ownership check made against the storage root instead of the caller's
\* directory
UnderAnyUserDir(u, resolved) ==
    Len(resolved) > Len(UploadsRoot) + 1 /\ InParents(UploadsRoot, resolved)

\* the second check of confirm_receipt (403 when it fails)
UnderUserDir(u, resolved) == InParents(UserDir(u), resolved)

\* the path checks with the ownership test made first
PathCheckOwnerFirst(u, path) ==
    LET resolved == Resolve(path) IN
    IF ~UnderUserDir(u, resolved) THEN "Forbidden"
    ELSE IF ~UnderUploads(resolved) THEN "BadRequest"
    ELSE IF ~IsFile(resolved) THEN "NotFound"
    ELSE "ok"

\* outcome of the three path checks, "ok" when all pass
PathCheck(u, path) ==
    LET resolved == Resolve(path) IN
    IF ~UnderUploads(resolved) THEN "BadRequest"
    ELSE IF ~UnderUserDir(u, resolved) THEN "Forbidden"
    ELSE IF ~IsFile(resolved) THEN "NotFound"
    ELSE "ok"

\* a default date taken when the module was imported
FinalDateAtImport(item, now) ==
    IF item.expense_date # NoDate THEN item.expense_date ELSE Today(0)

\* item.expense_date or date.today()
FinalDate(item, now) ==
    IF item.expense_date # NoDate THEN item.expense_date ELSE Today(now)

\* the Expense built for the k-th item of the payload
NewExpense(u, path, item, id, now) ==
    Expense([id |-> id, user_id |-> u, amount |-> item.amount,
             currency |-> item.currency, description |-> item.description,
             category |-> item.category,
             expense_date |-> FinalDate(item, now),
             receipt_path |-> path,
             created_at |-> now, updated_at |-> now, deleted_at |-> NoTime])

\* the list `created` (and the objects added to the session), in input order
BuildCreated(u, path, items, firstId, now) ==
    [k \in 1..Len(items) |->
        NewExpense(u, path, items[k], firstId + k - 1, now)]

\* session.rollback(): objects that were pending are expunged
Rollback(pending) == <<>>

\* a commit that writes the first pending object only
CommitFirstOnly(table, pending) ==
    IF pending = <<>> THEN table ELSE table \cup {pending[1]}

\* session.commit(): the pending objects become rows, in one transaction
Commit(table, pending) == table \cup {pending[k] : k \in 1..Len(pending)}

\* a backoff that does not grow with the attempt
BackoffFlat(attempt) == BackoffUnit

\* time.sleep(0.25 * (attempt + 1)), in hundredths of a second
Backoff(attempt) == BackoffUnit * (attempt + 1)

\* request validation, the three path checks and the loop that builds the
\* Expense objects and adds them to the session
ConfirmStart(u, path, items) ==
    /\ CanStart(u)
    /\ clock' = clock + 1
    /\ LET r0 == [IdleReq EXCEPT !.op = "confirm", !.path = path,
                                 !.items = items]
           check == PathCheck(u, path)
           created == BuildCreated(u, path, items, nextId, clock + 1)
       IN
       IF \E k \in 1..Len(items) : ~ValidConfirmItem(items[k])
       THEN /\ req' = [req EXCEPT ![u] =
                         Finish([r0 EXCEPT !.path = NoPath], "Unprocessable")]
            /\ UNCHANGED nextId
       ELSE IF check # "ok"
       THEN /\ req' = [req EXCEPT ![u] = Finish(r0, check)]
            /\ UNCHANGED nextId
       ELSE /\ req' = [req EXCEPT ![u] =
                        [r0 EXCEPT !.pc = "commit", !.created = created,
                                   !.pending = created]]
            /\ nextId' = nextId + Len(items)
    /\ UNCHANGED <<files, dirs, expenses>>
    /\ UNCHANGED <<previews, limit, budgets, breq>>

\* one iteration of `for attempt in range(3)`; the driver's answer to
\* session.commit() is the environment's choice on every attempt
ConfirmCommit(u, answer) ==
    LET r == req[u] IN
    /\ r.op = "confirm" /\ r.pc = "commit"
    /\ \/ /\ answer = "ok"
          /\ expenses' = Commit(expenses, r.pending)
          /\ req' = [req EXCEPT ![u] =
                       [r EXCEPT !.pc = "respond", !.pending = <<>>,
                                 !.committed = TRUE,
                                 !.attempts = r.attempts + 1]]
       \/ /\ answer = "OperationalError"
          /\ UNCHANGED expenses
          /\ LET r1 == [r EXCEPT !.pending = Rollback(r.pending),
                                 !.attempts = r.attempts + 1]
             IN
             IF r.attempt = CommitAttempts - 1
             THEN req' = [req EXCEPT ![u] = Finish(r1, "StorageBusy")]
             ELSE req' = [req EXCEPT ![u] =
                            [r1 EXCEPT !.attempt = r.attempt + 1,
                                       !.sleeps = Append(r.sleeps,
                                                     Backoff(r.attempt))]]
       \/ /\ answer = "OtherError"
          /\ UNCHANGED expenses
          /\ req' = [req EXCEPT ![u] =
                       Finish([r EXCEPT !.pending = <<>>,
                                        !.attempts = r.attempts + 1],
                              "InternalError")]
    /\ UNCHANGED <<files, dirs, nextId, clock>>
    /\ UNCHANGED <<previews, limit, budgets, breq>>

\* the list comprehension that reads every `created` object into an
\* ExpenseRead, and the return
ConfirmRespond(u) ==
    LET r == req[u] IN
    /\ r.op = "confirm" /\ r.pc = "respond"
    /\ IF \A k \in 1..Len(r.created) : CanRead(r.created[k])
       THEN req' = [req EXCEPT ![u] =
                      Finish([r EXCEPT !.result = r.created], "Created")]
       ELSE req' = [req EXCEPT ![u] = Finish(r, "InternalError")]
    /\ UNCHANGED <<files, dirs, expenses, nextId, clock>>
    /\ UNCHANGED <<previews, limit, budgets, breq>>

----------------------------------------------------------------------------
(* POST /receipts/process *)

\* (file.content_type or "").lower() over the content types of the model
Lower(ctype) == IF ctype = "IMAGE/PNG" THEN "image/png" ELSE ctype

\* a read of at most MAX_UPLOAD_BYTES bytes
ReadLenNoMargin(size) == IF size > MAX_UPLOAD_BYTES THEN MAX_UPLOAD_BYTES
                         ELSE size

\* file.file.read(MAX_UPLOAD_BYTES + 1): number of bytes read
ReadLen(size) == IF size > MAX_UPLOAD_BYTES + 1 THEN MAX_UPLOAD_BYTES + 1
                 ELSE size

\* the dict lookup with default "" that picks the extension
Ext(content_type) ==
    IF content_type = "image/jpeg" THEN ".jpg"
    ELSE IF content_type = "image/png" THEN ".png"
    ELSE IF content_type = "application/pdf" THEN ".pdf"
    ELSE ""

\* uuid.uuid4().hex: a fresh value, drawn from the counter
Hex(n) == ToString(n)

\* f"receipt_{uuid.uuid4().hex}{ext}"
ReceiptFileName(n, content_type) == "receipt_" \o Hex(n) \o Ext(content_type)

\* a base directory shared by all users
BaseDirShared(u) == Path(FALSE, <<"uploads">>)

\* Path("uploads") / str(current_user.id)
BaseDir(u) == Join(Path(FALSE, <<"uploads">>), u)

\* base_dir.mkdir(parents=True, exist_ok=True)
Mkdir(ds, u) == ds \cup {UploadsRoot, UserDir(u)}

\* outcome of the checks made before anything is stored, "ok" when all pass
UploadCheck(allowed, ctype, size) ==
    IF Lower(ctype) \notin allowed THEN "type"
    ELSE IF ReadLen(size) = 0 THEN "empty"
    ELSE IF ReadLen(size) > MAX_UPLOAD_BYTES THEN "too_large"
    ELSE "ok"

\* validation of the upload, then the write of the artifact
ProcessStart(u, ctype, size, client_name) ==
    /\ CanStart(u)
    /\ clock' = clock + 1
    /\ LET r0 == [IdleReq EXCEPT !.op = "process", !.ctype = ctype,
                                 !.size = size, !.client_name = client_name]
           check == UploadCheck(ALLOWED_CONTENT_TYPES, ctype, size)
           save_path == Join(BaseDir(u),
                             ReceiptFileName(nextId, Lower(ctype)))
       IN
       IF check # "ok"
       THEN /\ req' = [req EXCEPT ![u] =
                         Finish([r0 EXCEPT !.detail = check], "BadRequest")]
            /\ UNCHANGED <<files, dirs, nextId>>
       ELSE /\ dirs' = Mkdir(dirs, u)
            /\ files' = files \cup {Resolve(save_path)}
            /\ nextId' = nextId + 1
            /\ req' = [req EXCEPT ![u] =
                         [r0 EXCEPT !.pc = "normalize",
                                    !.receipt_path = save_path,
                                    !.writes = 1,
                                    !.stages = <<"store">>]]
    /\ UNCHANGED expenses
    /\ UNCHANGED <<previews, limit, budgets, breq>>

\* _ocr_image up to the deskew: the imports, cv2.imread and the transforms
ProcessNormalize(u, answer) ==
    LET r == req[u]
        r1 == [r EXCEPT !.stages = Append(r.stages, "normalize")] IN
    /\ r.op = "process" /\ r.pc = "normalize"
    /\ \/ /\ answer = "ImportError"
          /\ req' = [req EXCEPT ![u] = Finish(r1, "ServiceUnavailable")]
       \/ /\ answer = "unreadable"
          /\ req' = [req EXCEPT ![u] = Finish(r1, "NotFound")]
       \/ /\ answer = "error"
          /\ req' = [req EXCEPT ![u] = Finish(r1, "InternalError")]
       \/ /\ answer = "ok"
          /\ req' = [req EXCEPT ![u] = [r1 EXCEPT !.pc = "recognize"]]
    /\ UNCHANGED <<files, dirs, expenses, nextId, clock>>
    /\ UNCHANGED <<previews, limit, budgets, breq>>

\* a recognition that falls back to "eng" after any failure of the first
\* invocation
RecognizeAnyError(primary, fallback, text) ==
    IF primary = "ok"
    THEN [ok |-> TRUE, calls |-> <<"spa+eng">>, errors |-> <<>>,
          text |-> text]
    ELSE IF fallback = "ok"
         THEN [ok |-> TRUE, calls |-> <<"spa+eng", "eng">>,
               errors |-> <<primary>>, text |-> text]
    ELSE [ok |-> FALSE, calls |-> <<"spa+eng", "eng">>,
          errors |-> <<primary, fallback>>, text |-> <<>>]

\* the two pytesseract.image_to_string calls of _ocr_image: the languages
\* the engine was invoked with, the errors it raised, and the text returned;
\* only pytesseract.TesseractError of the first invocation leads to the
\* second, and any error that leaves the function becomes a 500
Recognize(primary, fallback, text) ==
    IF primary = "ok"
    THEN [ok |-> TRUE, calls |-> <<"spa+eng">>, errors |-> <<>>,
          text |-> text]
    ELSE IF primary # "TesseractError"
         THEN [ok |-> FALSE, calls |-> <<"spa+eng">>,
               errors |-> <<primary>>, text |-> <<>>]
    ELSE IF fallback = "ok"
         THEN [ok |-> TRUE, calls |-> <<"spa+eng", "eng">>,
               errors |-> <<primary>>, text |-> text]
    ELSE [ok |-> FALSE, calls |-> <<"spa+eng", "eng">>,
          errors |-> <<primary, fallback>>, text |-> <<>>]

\* the recognition part of _ocr_image within process_receipt
ProcessRecognize(u, primary, fallback, text) ==
    LET r == req[u]
        res == Recognize(primary, fallback, text)
        r1 == [r EXCEPT !.stages = Append(r.stages, "recognize"),
                        !.ocr_calls = res.calls,
                        !.ocr_errors = res.errors] IN
    /\ r.op = "process" /\ r.pc = "recognize"
    /\ IF res.ok
       THEN req' = [req EXCEPT ![u] =
                      [r1 EXCEPT !.pc = "extract", !.text = res.text]]
       ELSE req' = [req EXCEPT ![u] = Finish(r1, "InternalError")]
    /\ UNCHANGED <<files, dirs, expenses, nextId, clock>>
    /\ UNCHANGED <<previews, limit, budgets, breq>>

\* the categories _classify_categories accepts from the model
AllowedCategories ==
    {"FOOD", "GROCERIES", "TRANSPORT", "ENTERTAINMENT", "HEALTH",
     "UTILITIES", "RENT", "OTHER"}

\* an item type that puts no constraint on the currency
ValidReceiptItemAnyCurrency(item) ==
    /\ item.amount > 0
    /\ Len(item.description) >= 1 /\ Len(item.description) <= 255
    /\ Len(item.category) >= 1 /\ Len(item.category) <= 50
    /\ item.expense_date = NoDate \/ item.expense_date <= Today(0)

\* ReceiptExpenseItem: amount > 0, currency ^[A-Z]{3}$, description of
\* 1..255 characters, category of 1..50 characters, expense_date not after
\* the day the module was imported
ValidReceiptItem(item) ==
    /\ item.amount > 0
    /\ Len(item.currency) = 3
    /\ \A k \in 1..Len(item.currency) : item.currency[k] \in UpperLetters
    /\ Len(item.description) >= 1 /\ Len(item.description) <= 255
    /\ Len(item.category) >= 1 /\ Len(item.category) <= 50
    /\ item.expense_date = NoDate \/ item.expense_date <= Today(0)

\* float(f"{int(amount_int_s)}.{int(amount_dec_s):02d}"), in cents
MatchAmount(m) == m.amount_int * 100 + m.amount_dec

\* the candidate built from one match of the pattern
MatchItem(m) ==
    [amount |-> MatchAmount(m), currency |-> CAD, description |-> m.desc,
     category |-> "OTHER", expense_date |-> NoDate]

\* _parse_receipt_locally over the pattern's matches, in text order: a match
\* with an empty description or a non-positive amount is skipped, and a
\* candidate the item type refuses raises
RECURSIVE ParseLocally(_)
ParseLocally(matches) ==
    IF matches = <<>> THEN [ok |-> TRUE, items |-> <<>>]
    ELSE LET m == Head(matches)
             rest == ParseLocally(Tail(matches)) IN
         IF m.desc = "" \/ MatchAmount(m) <= 0 THEN rest
         ELSE IF ~ValidReceiptItem(MatchItem(m))
              THEN [ok |-> FALSE, items |-> <<>>]
         ELSE IF ~rest.ok THEN rest
         ELSE [ok |-> TRUE, items |-> <<MatchItem(m)>> \o rest.items]

\* an extraction that goes on to the preview without the classification
ProcessExtractUnclassified(u) ==
    LET r == req[u]
        r1 == [r EXCEPT !.stages = Append(r.stages, "extract")]
        parsed == ParseLocally(r.text) IN
    /\ r.op = "process" /\ r.pc = "extract"
    /\ IF parsed.ok
       THEN req' = [req EXCEPT ![u] =
                      [r1 EXCEPT !.pc = "preview", !.cands = parsed.items]]
       ELSE req' = [req EXCEPT ![u] = Finish(r1, "InternalError")]
    /\ UNCHANGED <<files, dirs, expenses, nextId, clock>>
    /\ UNCHANGED <<previews, limit, budgets, breq>>

\* items = _parse_receipt_locally(ocr_text)
ProcessExtract(u) ==
    LET r == req[u]
        r1 == [r EXCEPT !.stages = Append(r.stages, "extract")]
        parsed == ParseLocally(r.text) IN
    /\ r.op = "process" /\ r.pc = "extract"
    /\ IF parsed.ok
       THEN req' = [req EXCEPT ![u] =
                      [r1 EXCEPT !.pc = "classify", !.cands = parsed.items]]
       ELSE req' = [req EXCEPT ![u] = Finish(r1, "InternalError")]
    /\ UNCHANGED <<files, dirs, expenses, nextId, clock>>
    /\ UNCHANGED <<previews, limit, budgets, breq>>

\* the descriptions as they come, repeated ones included
NoDedup(descs) == descs

\* the fields of ReceiptExpenseItem(**x): the keywords given, and the
\* defaults of the others
ItemFields(x) ==
    [amount |-> x.amount,
     currency |-> IF "currency" \in DOMAIN x THEN x.currency ELSE CAD,
     description |-> x.description,
     category |-> IF "category" \in DOMAIN x THEN x.category ELSE "OTHER",
     expense_date |-> IF "expense_date" \in DOMAIN x THEN x.expense_date
                      ELSE NoDate]

\* ReceiptExpenseItem(**x) raises: a required field is missing or a
\* constraint of the type is broken
ItemRefused(x) ==
    \/ ~({"amount", "description"} \subseteq DOMAIN x)
    \/ ~ValidReceiptItem(ItemFields(x))

\* a structured extraction that takes a JSON object for the empty array
ParseWithLlmObjectAsEmpty(env, answer) ==
    IF ~env.api_key
    THEN [status |-> "ServiceUnavailable", detail |-> "Missing OPENAI_API_KEY",
          reply |-> "none", items |-> <<>>]
    ELSE IF ~env.llm_installed
    THEN [status |-> "ServiceUnavailable",
          detail |-> "LLM dependencies missing", reply |-> "none",
          items |-> <<>>]
    ELSE IF answer.kind = "fail"
    THEN [status |-> "BadGateway", detail |-> "LLM call failed",
          reply |-> answer.kind, items |-> <<>>]
    ELSE IF answer.kind = "empty"
    THEN [status |-> "InternalError",
          detail |-> "LLM returned empty response", reply |-> answer.kind,
          items |-> <<>>]
    ELSE IF answer.kind = "unparsable"
    THEN [status |-> "InternalError", detail |-> "Failed to parse LLM output",
          reply |-> answer.kind, items |-> <<>>]
    ELSE IF answer.kind \in {"null", "object"}
    THEN [status |-> "Returned", detail |-> "", reply |-> answer.kind,
          items |-> <<>>]
    ELSE IF answer.kind # "array"
    THEN [status |-> "InternalError",
          detail |-> "LLM output must be a JSON array",
          reply |-> answer.kind, items |-> <<>>]
    ELSE IF \E k \in 1..Len(answer.data) : ItemRefused(answer.data[k])
    THEN [status |-> "InternalError", detail |-> "validation error",
          reply |-> answer.kind, items |-> <<>>]
    ELSE [status |-> "Returned", detail |-> "", reply |-> answer.kind,
          items |-> [k \in 1..Len(answer.data) |->
                        ItemFields(answer.data[k])]]

\* _parse_receipt_with_llm: the status it ends with ("Returned" when it
\* returns a list), the kind of reply the model gave when it was called,
\* and the list returned; `env` tells whether OPENAI_API_KEY is set and the
\* model libraries import, `answer` is what the model does when called
ParseWithLlm(env, answer) ==
    IF ~env.api_key
    THEN [status |-> "ServiceUnavailable", detail |-> "Missing OPENAI_API_KEY",
          reply |-> "none", items |-> <<>>]
    ELSE IF ~env.llm_installed
    THEN [status |-> "ServiceUnavailable",
          detail |-> "LLM dependencies missing", reply |-> "none",
          items |-> <<>>]
    ELSE IF answer.kind = "fail"
    THEN [status |-> "BadGateway", detail |-> "LLM call failed",
          reply |-> answer.kind, items |-> <<>>]
    ELSE IF answer.kind = "empty"
    THEN [status |-> "InternalError",
          detail |-> "LLM returned empty response", reply |-> answer.kind,
          items |-> <<>>]
    ELSE IF answer.kind = "unparsable"
    THEN [status |-> "InternalError", detail |-> "Failed to parse LLM output",
          reply |-> answer.kind, items |-> <<>>]
    ELSE IF answer.kind = "null"
    THEN [status |-> "Returned", detail |-> "", reply |-> answer.kind,
          items |-> <<>>]
    ELSE IF answer.kind = "object"
    THEN [status |-> "InternalError",
          detail |-> "LLM output must be a JSON array, got object",
          reply |-> answer.kind, items |-> <<>>]
    ELSE IF answer.kind # "array"
    THEN [status |-> "InternalError",
          detail |-> "LLM output must be a JSON array",
          reply |-> answer.kind, items |-> <<>>]
    ELSE IF \E k \in 1..Len(answer.data) : ItemRefused(answer.data[k])
    THEN [status |-> "InternalError", detail |-> "validation error",
          reply |-> answer.kind, items |-> <<>>]
    ELSE [status |-> "Returned", detail |-> "", reply |-> answer.kind,
          items |-> [k \in 1..Len(answer.data) |->
                        ItemFields(answer.data[k])]]

\* one application of _parse_receipt_with_llm on behalf of user u
ExtractWithLlm(u, env, answer) ==
    LET res == ParseWithLlm(env, answer) IN
    /\ CanStart(u)
    /\ clock' = clock + 1
    /\ req' = [req EXCEPT ![u] =
                 Finish([IdleReq EXCEPT !.op = "parse_llm",
                                        !.detail = res.detail,
                                        !.reply = res.reply,
                                        !.cands = res.items],
                        res.status)]
    /\ UNCHANGED <<files, dirs, expenses, nextId, previews>>
    /\ UNCHANGED <<limit, budgets, breq>>

\* list(dict.fromkeys(descriptions)): first occurrences, in order
RECURSIVE Unique(_)
Unique(descs) ==
    IF descs = <<>> THEN <<>>
    ELSE LET init == Unique(SubSeq(descs, 1, Len(descs) - 1))
             last == descs[Len(descs)] IN
         IF \E k \in 1..Len(init) : init[k] = last THEN init
         ELSE Append(init, last)

\* the entries of the model's JSON object whose value is an allowed category
FilterAllowed(data) ==
    [d \in {k \in DOMAIN data : data[k] \in AllowedCategories} |-> data[d]]

\* _classify_categories: the status it ends with and the mapping it returns;
\* `env` tells whether OPENAI_API_KEY is set and the model libraries import,
\* `answer` is what the language model does when it is called
\* `calls` lists the batches sent to the language model
Classify(descs, env, answer) ==
    IF ~env.api_key
    THEN [status |-> "ServiceUnavailable", detail |-> "Missing OPENAI_API_KEY",
          map |-> <<>>, calls |-> <<>>]
    ELSE IF descs = <<>>
    THEN [status |-> "ok", detail |-> "", map |-> <<>>, calls |-> <<>>]
    ELSE IF ~env.llm_installed
    THEN [status |-> "ServiceUnavailable",
          detail |-> "LLM dependencies missing", map |-> <<>>,
          calls |-> <<>>]
    ELSE IF answer.kind = "fail"
    THEN [status |-> "BadGateway", detail |-> "LLM call failed",
          map |-> <<>>, calls |-> <<Unique(descs)>>]
    ELSE IF answer.kind = "unparsable"
    THEN [status |-> "InternalError", detail |-> "Failed to parse LLM output",
          map |-> <<>>, calls |-> <<Unique(descs)>>]
    ELSE IF answer.kind = "not_object"
    THEN [status |-> "InternalError",
          detail |-> "LLM output must be a JSON object",
          map |-> <<>>, calls |-> <<Unique(descs)>>]
    ELSE [status |-> "ok", detail |-> "", map |-> FilterAllowed(answer.data),
          calls |-> <<Unique(descs)>>]

\* category_map.get(item.description, "OTHER")
CategoryOf(map, desc) == IF desc \in DOMAIN map THEN map[desc] ELSE "OTHER"

\* what the language model may answer for the given batch: a failure, a
\* text that is no JSON, a JSON value that is no object, the empty object,
\* and an object that gives FOOD to the first description of the batch and
\* a category outside the closed set to the others
Answers(batch) ==
    LET keys == {batch[k] : k \in 1..Len(batch)} IN
    [kind : {"fail", "unparsable", "not_object"}, data : {<<>>}]
    \cup
    {[kind |-> "object", data |-> <<>>],
     [kind |-> "object",
      data |-> [d \in keys |-> IF d = batch[1] THEN "FOOD" ELSE "SNACKS"]]}

\* category_map = _classify_categories(...) and the loop that assigns the
\* categories
ProcessClassify(u, env, answer) ==
    LET r == req[u]
        descs == [k \in 1..Len(r.cands) |-> r.cands[k].description]
        res == Classify(descs, env, answer)
        r1 == [r EXCEPT !.stages = Append(r.stages, "classify"),
                        !.llm_calls = res.calls,
                        !.detail = res.detail] IN
    /\ r.op = "process" /\ r.pc = "classify"
    /\ IF res.status = "ok"
       THEN req' = [req EXCEPT ![u] =
                      [r1 EXCEPT !.pc = "preview",
                                 !.category_map = res.map,
                                 !.cands = [k \in 1..Len(r.cands) |->
                                     [r.cands[k] EXCEPT !.category =
                                         CategoryOf(res.map,
                                             r.cands[k].description)]]]]
       ELSE req' = [req EXCEPT ![u] = Finish(r1, res.status)]
    /\ UNCHANGED <<files, dirs, expenses, nextId, clock>>
    /\ UNCHANGED <<previews, limit, budgets, breq>>

\* the ExpenseRead shown for the k-th candidate
PreviewItem(u, path, item, id, now) ==
    [id |-> id, user_id |-> u, amount |-> item.amount,
     currency |-> item.currency, description |-> item.description,
     category |-> item.category,
     expense_date |-> FinalDate(item, now),
     receipt_path |-> path,
     created_at |-> now, updated_at |-> now, deleted_at |-> NoTime]

\* what is remembered of a response of process: the caller, the
\* receipt_path returned and the day shown as the default expense_date
Returned(u, path, now) ==
    [user |-> u, receipt_path |-> path, day |-> Today(now)]

\* process_receipt with the block that saves the candidates restored
ProcessPreviewSaving(u) ==
    LET r == req[u]
        r1 == [r EXCEPT !.stages = Append(r.stages, "preview")]
        rows == [k \in 1..Len(r.cands) |->
                    NewExpense(u, r.receipt_path, r.cands[k],
                               nextId + k - 1, clock)] IN
    /\ r.op = "process" /\ r.pc = "preview"
    /\ req' = [req EXCEPT ![u] =
                 Finish([r1 EXCEPT !.preview =
                            [k \in 1..Len(r.cands) |->
                                PreviewItem(u, r.receipt_path, r.cands[k],
                                            nextId + k - 1, clock)]],
                        "Created")]
    /\ nextId' = nextId + Len(r.cands)
    /\ expenses' = Commit(expenses, rows)
    /\ previews' = previews \cup {Returned(u, r.receipt_path, clock)}
    /\ UNCHANGED <<limit, budgets, breq>>
    /\ UNCHANGED <<files, dirs, clock>>

\* preview_out and the return of process_receipt
ProcessPreview(u) ==
    LET r == req[u]
        r1 == [r EXCEPT !.stages = Append(r.stages, "preview")] IN
    /\ r.op = "process" /\ r.pc = "preview"
    /\ req' = [req EXCEPT ![u] =
                 Finish([r1 EXCEPT !.preview =
                            [k \in 1..Len(r.cands) |->
                                PreviewItem(u, r.receipt_path, r.cands[k],
                                            nextId + k - 1, clock)]],
                        "Created")]
    /\ nextId' = nextId + Len(r.cands)
    /\ previews' = previews \cup {Returned(u, r.receipt_path, clock)}
    /\ UNCHANGED <<limit, budgets, breq>>
    /\ UNCHANGED <<files, dirs, expenses, clock>>

----------------------------------------------------------------------------
(* POST /expenses and POST /expenses/{expense_id}/receipt *)

\* date.today() when the schemas are declared (le=date.today())
ImportDay == Today(0)

\* ExpenseCreate: the item constraints and expense_date <= the import day
ValidExpenseCreate(item) ==
    /\ ValidConfirmItem(item)
    /\ item.expense_date = NoDate \/ item.expense_date <= ImportDay

\* create_expense: one Expense for the caller, committed without retry
CreateExpense(u, item, answer) ==
    /\ CanStart(u)
    /\ clock' = clock + 1
    /\ LET r0 == [IdleReq EXCEPT !.op = "create", !.items = <<item>>]
           expense ==
               Expense([id |-> nextId, user_id |-> u, amount |-> item.amount,
                        currency |-> item.currency,
                        description |-> item.description,
                        category |-> item.category,
                        expense_date |-> FinalDate(item, clock + 1),
                        created_at |-> clock + 1, updated_at |-> clock + 1,
                        deleted_at |-> NoTime])
       IN
       IF ~ValidExpenseCreate(item)
       THEN /\ req' = [req EXCEPT ![u] = Finish(r0, "Unprocessable")]
            /\ UNCHANGED <<expenses, nextId>>
       ELSE /\ nextId' = nextId + 1
            /\ \/ /\ answer = "ok"
                  /\ expenses' = Commit(expenses, <<expense>>)
                  /\ req' = [req EXCEPT ![u] =
                               Finish([r0 EXCEPT !.created = <<expense>>,
                                                 !.result = <<expense>>,
                                                 !.committed = TRUE],
                                      "Created")]
               \/ /\ answer # "ok"
                  /\ UNCHANGED expenses
                  /\ req' = [req EXCEPT ![u] =
                               Finish([r0 EXCEPT !.created = <<expense>>],
                                      "InternalError")]
    /\ UNCHANGED <<files, dirs>>
    /\ UNCHANGED <<previews, limit, budgets, breq>>

\* a lookup that does not compare the owner with the caller
OwnedLiveAnyUser(u, expense_id) ==
    {e \in expenses : e.id = expense_id /\ e.deleted_at = NoTime}

\* session.get(Expense, expense_id) and the 404 test on it
OwnedLive(u, expense_id) ==
    {e \in expenses : e.id = expense_id /\ e.deleted_at = NoTime
                      /\ e.user_id = u}

\* f"{expense_id}_{uuid.uuid4().hex}{ext}"
UploadFileName(expense_id, n, content_type) ==
    ToString(expense_id) \o "_" \o Hex(n) \o Ext(content_type)

\* expense.<name> = value: a table model refuses a name it does not declare
CanAssign(expense, name) == name \in DOMAIN expense

\* upload_receipt up to the assignment of expense.receipt_path; the commit
\* loop follows only when the assignment is accepted
UploadReceipt(u, expense_id, ctype, size) ==
    /\ CanStart(u)
    /\ clock' = clock + 1
    /\ LET r0 == [IdleReq EXCEPT !.op = "upload", !.ctype = ctype,
                                 !.size = size, !.expense_id = expense_id]
           check == UploadCheck(EXPENSE_ALLOWED_CONTENT_TYPES, ctype, size)
           save_path == Join(BaseDir(u),
                             UploadFileName(expense_id, nextId, Lower(ctype)))
       IN
       IF OwnedLive(u, expense_id) = {}
       THEN /\ req' = [req EXCEPT ![u] = Finish(r0, "NotFound")]
            /\ UNCHANGED <<files, dirs, nextId>>
       ELSE IF check # "ok"
       THEN /\ req' = [req EXCEPT ![u] =
                         Finish([r0 EXCEPT !.detail = check], "BadRequest")]
            /\ UNCHANGED <<files, dirs, nextId>>
       ELSE /\ dirs' = Mkdir(dirs, u)
            /\ files' = files \cup {Resolve(save_path)}
            /\ nextId' = nextId + 1
            /\ LET expense == CHOOSE e \in OwnedLive(u, expense_id) : TRUE
                   r1 == [r0 EXCEPT !.receipt_path = save_path,
                                    !.writes = 1]
               IN
               IF CanAssign(expense, "receipt_path")
               THEN req' = [req EXCEPT ![u] =
                              [r1 EXCEPT !.pc = "commit",
                                         !.pending = <<expense>>]]
               ELSE req' = [req EXCEPT ![u] = Finish(r1, "InternalError")]
    /\ UNCHANGED expenses
    /\ UNCHANGED <<previews, limit, budgets, breq>>

----------------------------------------------------------------------------
(* GET /expenses, GET, PATCH and DELETE /expenses/{expense_id} *)

\* the rows selected by the statement of list_expenses
Listed(u) == {e \in expenses : e.deleted_at = NoTime /\ e.user_id = u}

\* order_by(Expense.expense_date.desc()): the orders the database may
\* return the rows in, rows of the same date in any order
RECURSIVE OrderByDateDesc(_)
OrderByDateDesc(rows) ==
    IF rows = {} THEN {<<>>}
    ELSE UNION {{<<e>> \o t : t \in OrderByDateDesc(rows \ {e})} :
                  e \in {x \in rows :
                           \A y \in rows : y.expense_date <= x.expense_date}}

\* list_expenses: the caller's rows that are not soft-deleted
ListExpenses(u, result) ==
    /\ CanStart(u)
    /\ clock' = clock + 1
    /\ result \in OrderByDateDesc(Listed(u))
    /\ req' = [req EXCEPT ![u] =
                 Finish([IdleReq EXCEPT !.op = "list", !.result = result],
                        "Ok")]
    /\ UNCHANGED <<files, dirs, expenses, nextId>>
    /\ UNCHANGED <<previews, limit, budgets, breq>>

\* get_expense: 404 unless the row exists, is live and is the caller's
GetExpense(u, expense_id) ==
    /\ CanStart(u)
    /\ clock' = clock + 1
    /\ LET r0 == [IdleReq EXCEPT !.op = "get", !.expense_id = expense_id] IN
       IF OwnedLive(u, expense_id) = {}
       THEN req' = [req EXCEPT ![u] = Finish(r0, "NotFound")]
       ELSE LET expense == CHOOSE e \in OwnedLive(u, expense_id) : TRUE IN
            req' = [req EXCEPT ![u] =
                      Finish([r0 EXCEPT !.result = <<expense>>], "Ok")]
    /\ UNCHANGED <<files, dirs, expenses, nextId>>
    /\ UNCHANGED <<previews, limit, budgets, breq>>

\* ExpenseUpdate: the constraints of the fields that are not None
ValidExpenseUpdate(changes) ==
    /\ "amount" \in changes.fields => changes.amount > 0
    /\ "currency" \in changes.fields =>
          /\ Len(changes.currency) = 3
          /\ \A k \in 1..Len(changes.currency) :
                changes.currency[k] \in UpperLetters
    /\ "description" \in changes.fields =>
          (Len(changes.description) >= 1 /\ Len(changes.description) <= 255)
    /\ "category" \in changes.fields =>
          (Len(changes.category) >= 1 /\ Len(changes.category) <= 50)
    /\ "expense_date" \in changes.fields => changes.expense_date <= ImportDay

\* the assignments of update_expense: every field of the body that is not
\* None, and updated_at
Updated(expense, changes, now) ==
    [f \in DOMAIN expense |->
        IF f \in changes.fields THEN changes[f]
        ELSE IF f = "updated_at" THEN now
        ELSE expense[f]]

\* update_expense: the body is validated before the handler runs; the
\* commit is not retried
UpdateExpense(u, expense_id, changes, answer) ==
    /\ CanStart(u)
    /\ clock' = clock + 1
    /\ LET r0 == [IdleReq EXCEPT !.op = "update", !.expense_id = expense_id,
                                 !.changes = changes]
       IN
       IF ~ValidExpenseUpdate(changes)
       THEN /\ req' = [req EXCEPT ![u] = Finish(r0, "Unprocessable")]
            /\ UNCHANGED expenses
       ELSE IF OwnedLive(u, expense_id) = {}
       THEN /\ req' = [req EXCEPT ![u] = Finish(r0, "NotFound")]
            /\ UNCHANGED expenses
       ELSE IF changes.fields = {}
       THEN /\ req' = [req EXCEPT ![u] =
                         Finish([r0 EXCEPT !.detail = "No fields to update"],
                                "BadRequest")]
            /\ UNCHANGED expenses
       ELSE LET expense == CHOOSE e \in OwnedLive(u, expense_id) : TRUE
                new == Updated(expense, changes, clock + 1)
            IN
            \/ /\ answer = "ok"
               /\ expenses' = (expenses \ {expense}) \cup {new}
               /\ req' = [req EXCEPT ![u] =
                            Finish([r0 EXCEPT !.result = <<new>>,
                                              !.committed = TRUE], "Ok")]
            \/ /\ answer # "ok"
               /\ UNCHANGED expenses
               /\ req' = [req EXCEPT ![u] = Finish(r0, "InternalError")]
    /\ UNCHANGED <<files, dirs, nextId>>
    /\ UNCHANGED <<previews, limit, budgets, breq>>

\* delete_expense: a soft delete, deleted_at and updated_at are set
DeleteExpense(u, expense_id, answer) ==
    /\ CanStart(u)
    /\ clock' = clock + 1
    /\ LET r0 == [IdleReq EXCEPT !.op = "delete",
                                 !.expense_id = expense_id]
       IN
       IF OwnedLive(u, expense_id) = {}
       THEN /\ req' = [req EXCEPT ![u] = Finish(r0, "NotFound")]
            /\ UNCHANGED expenses
       ELSE LET expense == CHOOSE e \in OwnedLive(u, expense_id) : TRUE
                new == [expense EXCEPT !.deleted_at = clock + 1,
                                       !.updated_at = clock + 1]
            IN
            \/ /\ answer = "ok"
               /\ expenses' = (expenses \ {expense}) \cup {new}
               /\ req' = [req EXCEPT ![u] =
                            Finish([r0 EXCEPT !.committed = TRUE],
                                   "NoContent")]
            \/ /\ answer # "ok"
               /\ UNCHANGED expenses
               /\ req' = [req EXCEPT ![u] = Finish(r0, "InternalError")]
    /\ UNCHANGED <<files, dirs, nextId>>
    /\ UNCHANGED <<previews, limit, budgets, breq>>

----------------------------------------------------------------------------
(* Inputs of the requests *)

\* bodies of update_expense: no field, an amount, a description with a
\* date, and an amount the schema refuses
Patches ==
    {NoChanges,
     [NoChanges EXCEPT !.fields = {"amount"}, !.amount = 999],
     [NoChanges EXCEPT !.fields = {"description", "expense_date"},
                       !.description = "Lunch", !.expense_date = 0],
     [NoChanges EXCEPT !.fields = {"amount"}, !.amount = 0]}

ContentTypes == {"IMAGE/PNG", "application/pdf", "text/plain"}

Sizes == {0, MAX_UPLOAD_BYTES, MAX_UPLOAD_BYTES + 2}

ClientNames == {"../../etc/passwd"}

LongDescription ==
    "xxxxxxxxxxxxxxxxxxxxxxxxxxxxxxxxxxxxxxxxxxxxxxxxxxxxxxxxxxxxxxxxxxxxxxxxxxxxxxxxxxxxxxxxxxxxxxxxxxxxxxxxxxxxxxxxxxxxxxxxxxxxxxxxxxxxxxxxxxxxxxxxxxxxxxxxxxxxxxxxxxxxxxxxxxxxxxxxxxxxxxxxxxxxxxxxxxxxxxxxxxxxxxxxxxxxxxxxxxxxxxxxxxxxxxxxxxxxxxxxxxxxxxxxxxxxxxxx"

Descriptions == <<"Coffee", "Bus", "Taxi", "Tea", "Rent">>

\* the k-th item of a payload: valid, and different from the others
ItemOf(k) ==
    [amount |-> 100 * k + 50, currency |-> CAD,
     description |-> Descriptions[k],
     category |-> IF k % 2 = 1 THEN "FOOD" ELSE "SNACKS",
     expense_date |-> IF k % 2 = 1 THEN NoDate ELSE 0]

\* an item the request schemas refuse
InvalidItem ==
    [amount |-> 0, currency |-> CAD, description |-> "Free",
     category |-> "OTHER", expense_date |-> NoDate]

\* payloads of 0..MaxItems valid items, and one with an invalid item
Payloads ==
    {[k \in 1..n |-> ItemOf(k)] : n \in 0..MaxItems} \cup {<<InvalidItem>>}

\* the pattern's matches in the texts the OCR engine may return
MatchInputs ==
    [coffee |-> [desc |-> "Coffee", amount_int |-> 4, amount_dec |-> 50],
     bus    |-> [desc |-> "Bus", amount_int |-> 2, amount_dec |-> 75],
     zero   |-> [desc |-> "Free", amount_int |-> 0, amount_dec |-> 0],
     long   |-> [desc |-> LongDescription, amount_int |-> 1,
                 amount_dec |-> 0]]

OcrTexts ==
    {<<>>,
     <<MatchInputs.coffee, MatchInputs.zero, MatchInputs.bus,
       MatchInputs.coffee>>,
     <<MatchInputs.long>>}

\* the last segments of the files on disk, and one that never exists
FileNames == {f[Len(f)] : f \in files} \cup {"missing.jpg"}

\* receipt paths user u may send to confirm: outside the storage root, the
\* root, a user's directory, a file name under each user's directory, and
\* the same under u's own directory written with a ".." that cancels out
PathInputs(u) ==
    {Path(FALSE, <<"..", "..", "etc", "passwd">>),
     Path(TRUE, <<"etc", "passwd">>),
     Path(FALSE, <<".", "uploads">>),
     Path(FALSE, <<"uploads", u>>)}
    \cup {Path(FALSE, <<"uploads", v, n>>) : v \in Users, n \in FileNames}
    \cup {Path(FALSE, <<"uploads", u, "..", u, n>>) : n \in FileNames}

ExpenseIds == {e.id : e \in expenses} \cup {0}

DriverAnswers == {"ok", "OperationalError", "OtherError"}

ClassifyEnvs == [api_key : BOOLEAN, llm_installed : BOOLEAN]

\* elements of the JSON array the language model may return
ArrayElements ==
    [full |-> [amount |-> 450, currency |-> <<"U", "S", "D">>,
               description |-> "Coffee", category |-> "FOOD",
               expense_date |-> 0],
     bare |-> [amount |-> 275, description |-> "Bus"],
     zero |-> [amount |-> 0, description |-> "Free"],
     lower |-> [amount |-> 120, currency |-> <<"c", "a", "d">>,
                description |-> "Tea"],
     short |-> [amount |-> 120, currency |-> <<"C", "A">>,
                description |-> "Tea"],
     nameless |-> [amount |-> 120, currency |-> CAD]]

\* what the language model may answer to the extraction prompt: a failed
\* call, an empty content, a text that is no JSON, each kind of JSON value
\* that is no array, and arrays of valid and invalid elements
ExtractAnswers ==
    [kind : {"fail", "empty", "unparsable", "null", "object", "number",
             "string", "boolean"},
     data : {<<>>}]
    \cup
    [kind : {"array"},
     data : {<<>>,
             <<ArrayElements.full>>,
             <<ArrayElements.bare, ArrayElements.full>>,
             <<ArrayElements.full, ArrayElements.zero>>,
             <<ArrayElements.lower>>,
             <<ArrayElements.short, ArrayElements.bare>>,
             <<ArrayElements.nameless>>}]

----------------------------------------------------------------------------
(* Specification *)

Next ==
    \/ \E u \in Users :
          /\ CanStart(u)
          /\ \E path \in PathInputs(u), items \in Payloads :
                ConfirmStart(u, path, items)
    \/ \E u \in Users :
          /\ req[u].pc = "commit"
          /\ \E answer \in DriverAnswers : ConfirmCommit(u, answer)
    \/ \E u \in Users : ConfirmRespond(u)
    \/ \E u \in Users :
          /\ CanStart(u)
          /\ \E ctype \in ContentTypes, size \in Sizes, name \in ClientNames :
                ProcessStart(u, ctype, size, name)
    \/ \E u \in Users :
          /\ req[u].pc = "normalize"
          /\ \E answer \in {"ok", "ImportError", "unreadable", "error"} :
                ProcessNormalize(u, answer)
    \/ \E u \in Users :
          /\ req[u].pc = "recognize"
          /\ \E primary \in {"ok", "TesseractError", "error"},
                fallback \in {"ok", "TesseractError"}, text \in OcrTexts :
                ProcessRecognize(u, primary, fallback, text)
    \/ \E u \in Users : ProcessExtract(u)
    \/ \E u \in Users :
          /\ req[u].pc = "classify"
          /\ \E env \in ClassifyEnvs :
                \E answer \in Answers(Unique([k \in 1..Len(req[u].cands) |->
                                          req[u].cands[k].description])) :
                    ProcessClassify(u, env, answer)
    \/ \E u \in Users : ProcessPreview(u)
    \/ \E u \in Users :
          /\ CanStart(u)
          /\ \E item \in {ItemOf(1), ItemOf(2), InvalidItem},
                answer \in {"ok", "error"} : CreateExpense(u, item, answer)
    \/ \E u \in Users :
          /\ CanStart(u)
          /\ \E id \in ExpenseIds, ctype \in ContentTypes, size \in Sizes :
                UploadReceipt(u, id, ctype, size)

Spec == Init /\ [][Next]_vars

\* the angle of the deskew: angle = cv2.minAreaRect(coords)[-1], folded
FoldAngle(angle) == IF angle < -45 THEN -(90 + angle) ELSE -angle

\* the deskew of _ocr_image: skipped when no pixel of the thresholded image
\* is below 255, else a rotation by the folded angle
Deskew(foreground, angle) ==
    IF foreground THEN [rotated |-> TRUE, rotation |-> FoldAngle(angle)]
    ELSE [rotated |-> FALSE, rotation |-> 0]

\* angles, in degrees, that cv2.minAreaRect reports: in [-90, 0) with the
\* OpenCV releases before 4.5.1 and in (0, 90] from 4.5.1 on; the
\* repository does not say which release is installed
RectAngles ==
    {-90, -75, -60, -46, -45, -44, -30, -15, -1}
    \cup {1, 15, 30, 44, 45, 46, 60, 75, 90}

\* one application of the normalizer's deskew on behalf of user u
NormalizeRaster(u, foreground, angle) ==
    LET res == Deskew(foreground, angle) IN
    /\ CanStart(u)
    /\ clock' = clock + 1
    /\ req' = [req EXCEPT ![u] =
                 Finish([IdleReq EXCEPT !.op = "normalize_raster",
                                        !.foreground = foreground,
                                        !.rect_angle = angle,
                                        !.rotated = res.rotated,
                                        !.rotation = res.rotation],
                        "Returned")]
    /\ UNCHANGED <<files, dirs, expenses, nextId, previews>>
    /\ UNCHANGED <<limit, budgets, breq>>

NextDeskew ==
    \E u \in Users :
        /\ CanStart(u)
        /\ \E foreground \in BOOLEAN, angle \in RectAngles :
              NormalizeRaster(u, foreground, angle)

SpecDeskew == Init /\ [][NextDeskew]_vars

\* the expense endpoints, and confirm on the files they stored
NextExpenses ==
    \/ \E u \in Users :
          /\ CanStart(u)
          /\ \E item \in {ItemOf(1), InvalidItem}, answer \in {"ok", "error"} :
                CreateExpense(u, item, answer)
    \/ \E u \in Users :
          /\ CanStart(u)
          /\ \E result \in OrderByDateDesc(Listed(u)) : ListExpenses(u, result)
    \/ \E u \in Users :
          /\ CanStart(u)
          /\ \E id \in ExpenseIds : GetExpense(u, id)
    \/ \E u \in Users :
          /\ CanStart(u)
          /\ \E id \in ExpenseIds, changes \in Patches,
                answer \in {"ok", "error"} :
                UpdateExpense(u, id, changes, answer)
    \/ \E u \in Users :
          /\ CanStart(u)
          /\ \E id \in ExpenseIds, answer \in {"ok", "error"} :
                DeleteExpense(u, id, answer)
    \/ \E u \in Users :
          /\ CanStart(u)
          /\ \E id \in ExpenseIds, ctype \in {"IMAGE/PNG", "text/plain"} :
                UploadReceipt(u, id, ctype, MAX_UPLOAD_BYTES)
    \/ \E u \in Users :
          /\ CanStart(u)
          /\ \E path \in PathInputs(u), items \in Payloads :
                ConfirmStart(u, path, items)
    \/ \E u \in Users :
          /\ req[u].pc = "commit"
          /\ \E answer \in DriverAnswers : ConfirmCommit(u, answer)
    \/ \E u \in Users : ConfirmRespond(u)

SpecExpenses == InitWith(MaxCalls + 1) /\ [][NextExpenses]_vars

----------------------------------------------------------------------------
(* POST /budgets *)

Digits == {"0", "1", "2", "3", "4", "5", "6", "7", "8", "9"}

\* _MONTH_RE.match(month) on a month of 7 characters: ^\d{4}-\d{2}$
MonthMatches(month) ==
    /\ Len(month) = 7
    /\ \A k \in {1, 2, 3, 4, 6, 7} : month[k] \in Digits
    /\ month[5] = "-"

\* BudgetCreate: month of 7 characters, category of 1..50, amount > 0
ValidBudgetCreate(month, category, amount) ==
    /\ Len(month) = 7
    /\ Len(category) >= 1 /\ Len(category) <= 50
    /\ amount > 0

\* current_user.default_currency
DefaultCurrency(u) == CAD

\* the rows the select of upsert_budget matches
Matching(u, month, category) ==
    {b \in budgets : b.user_id = u /\ b.month = month
                     /\ b.category = category}

\* .first() of a select without an order: None, or any matching row
FirstOf(rows) == IF rows = {} THEN {<<>>} ELSE {<<b>> : b \in rows}

\* a session starts a request when its previous one has returned; the
\* sessions are interchangeable, so the first to start is called s1
BudgetCanStart(s) ==
    /\ breq[s].pc \in {"idle", "done"}
    /\ clock < limit
    /\ (clock = 0 => s = "s1")

\* upsert_budget up to the select: request validation, the month test,
\* now, and the row the select returns in this session
UpsertStart(s, u, month, category, amount, existing) ==
    /\ BudgetCanStart(s)
    /\ clock' = clock + 1
    /\ existing \in FirstOf(Matching(u, month, category))
    /\ LET r0 == [IdleBudgetReq EXCEPT !.user = u, !.month = month,
                                       !.category = category,
                                       !.amount = amount]
       IN
       IF ~ValidBudgetCreate(month, category, amount)
       THEN breq' = [breq EXCEPT ![s] = Finish(r0, "Unprocessable")]
       ELSE IF ~MonthMatches(month)
       THEN breq' = [breq EXCEPT ![s] = Finish(r0, "BadRequest")]
       ELSE breq' = [breq EXCEPT ![s] =
                       [r0 EXCEPT !.pc = "commit", !.now = clock + 1,
                                  !.existing = existing]]
    /\ UNCHANGED <<files, dirs, expenses, req, nextId, previews>>
    /\ UNCHANGED <<limit, budgets>>

\* the UPDATE a flush emits for a loaded object: the columns whose assigned
\* value differs from the loaded one, on the row with the object's id
Flush(row, loaded, assigned) ==
    [f \in DOMAIN row |->
        IF f \in DOMAIN assigned /\ assigned[f] # loaded[f]
        THEN assigned[f] ELSE row[f]]

\* the rest of upsert_budget: an insert when the select returned None, an
\* update of the row it returned otherwise; commit, refresh and return
UpsertCommit(s, answer) ==
    LET r == breq[s] IN
    /\ r.pc = "commit"
    /\ IF answer # "ok"
       THEN /\ breq' = [breq EXCEPT ![s] = Finish(r, "InternalError")]
            /\ UNCHANGED <<budgets, nextId>>
       ELSE IF r.existing = <<>>
       THEN LET b == [id |-> nextId, user_id |-> r.user, month |-> r.month,
                      category |-> r.category, amount |-> r.amount,
                      currency |-> DefaultCurrency(r.user),
                      created_at |-> r.now, updated_at |-> r.now]
            IN
            /\ budgets' = budgets \cup {b}
            /\ nextId' = nextId + 1
            /\ breq' = [breq EXCEPT ![s] =
                          Finish([r EXCEPT !.result = <<b>>], "Created")]
       ELSE LET loaded == r.existing[1]
                row == CHOOSE b \in budgets : b.id = loaded.id
                new == Flush(row, loaded,
                             [amount |-> r.amount,
                              currency |-> DefaultCurrency(r.user),
                              updated_at |-> r.now])
            IN
            /\ budgets' = (budgets \ {row}) \cup {new}
            /\ UNCHANGED nextId
            /\ breq' = [breq EXCEPT ![s] =
                          Finish([r EXCEPT !.result = <<new>>], "Created")]
    /\ UNCHANGED <<files, dirs, expenses, req, clock, previews>>
    /\ UNCHANGED limit

Months ==
    {<<"2", "0", "2", "6", "-", "0", "2">>,
     <<"2", "0", "2", "6", "/", "0", "2">>}

BudgetAmounts == {0, 100, 200}

NextBudgets ==
    \/ \E s \in Sessions :
          /\ BudgetCanStart(s)
          /\ \E u \in Users, month \in Months, category \in {"OTHER", "FOOD"},
                amount \in BudgetAmounts :
                \E existing \in FirstOf(Matching(u, month, category)) :
                    UpsertStart(s, u, month, category, amount, existing)
    \/ \E s \in Sessions :
          /\ breq[s].pc = "commit"
          /\ \E answer \in {"ok", "error"} : UpsertCommit(s, answer)

SpecBudgets == InitWith(MaxCalls + 1) /\ [][NextBudgets]_vars

\* the two extractors: _parse_receipt_with_llm applied to what the model
\* may answer, and _parse_receipt_locally as process_receipt runs it
NextExtract ==
    \/ \E u \in Users :
          /\ CanStart(u)
          /\ \E env \in ClassifyEnvs, answer \in ExtractAnswers :
                ExtractWithLlm(u, env, answer)
    \/ \E u \in Users :
          /\ CanStart(u)
          /\ \E ctype \in ContentTypes, size \in Sizes, name \in ClientNames :
                ProcessStart(u, ctype, size, name)
    \/ \E u \in Users :
          /\ req[u].pc = "normalize"
          /\ \E answer \in {"ok", "ImportError", "unreadable", "error"} :
                ProcessNormalize(u, answer)
    \/ \E u \in Users :
          /\ req[u].pc = "recognize"
          /\ \E primary \in {"ok", "TesseractError", "error"},
                fallback \in {"ok", "TesseractError"}, text \in OcrTexts :
                ProcessRecognize(u, primary, fallback, text)
    \/ \E u \in Users : ProcessExtract(u)
    \/ \E u \in Users :
          /\ req[u].pc = "classify"
          /\ \E env \in ClassifyEnvs :
                \E answer \in Answers(Unique([k \in 1..Len(req[u].cands) |->
                                          req[u].cands[k].description])) :
                    ProcessClassify(u, env, answer)
    \/ \E u \in Users : ProcessPreview(u)

SpecExtract == Init /\ [][NextExtract]_vars

----------------------------------------------------------------------------
(* Properties *)

\* confirm requests whose handler ran (the payload passed the schema)
ConfirmRan(u) == req[u].op = "confirm" /\ req[u].outcome # "Unprocessable"

PathRejections == {"BadRequest", "Forbidden", "NotFound"}

\* ids of the Expense objects the current request of u built
CreatedIds(u) == {req[u].created[k].id : k \in 1..Len(req[u].created)}

\* committed rows that the current request of u built
RowsOf(u) == {e \in expenses : e.id \in CreatedIds(u)}

C1_Outcome(u) ==
    LET r == req[u]
        resolved == Resolve(r.path)
        inRoot == resolved = UploadsRoot
                  \/ (Len(resolved) > Len(UploadsRoot)
                      /\ SubSeq(resolved, 1, Len(UploadsRoot)) = UploadsRoot)
        inUser == Len(resolved) > Len(UserDir(u))
                  /\ SubSeq(resolved, 1, Len(UserDir(u))) = UserDir(u)
    IN
    /\ ~inRoot => r.outcome = "BadRequest"
    /\ (inRoot /\ ~inUser) => r.outcome = "Forbidden"
    /\ (inRoot /\ inUser /\ resolved \notin files) => r.outcome = "NotFound"
    /\ r.outcome \in PathRejections =>
          /\ r.pc = "done"
          /\ r.created = <<>> /\ r.pending = <<>>
          /\ r.attempts = 0 /\ ~r.committed

\* C1: confirm decides BadRequest (resolved path neither the storage root
\* nor inside it), else Forbidden (not strictly inside the caller's
\* directory), else NotFound (not an existing file), in this order; in these
\* three outcomes no Expense is added to the session, no commit is attempted
\* and the step that rejects leaves the table unchanged.
C1_PathChecksOrdered ==
    /\ [](\A u \in Users : ConfirmRan(u) => C1_Outcome(u))
    /\ [][\A u \in Users :
            (req'[u] # req[u] /\ req'[u].op = "confirm"
             /\ req'[u].outcome \in PathRejections)
            => (expenses' = expenses /\ nextId' = nextId)]_vars

\* one confirm ended Forbidden and another NotFound, each with two items
C1_Witness ==
    \E u, v \in Users :
        /\ ConfirmRan(u) /\ req[u].outcome = "Forbidden"
        /\ Len(req[u].items) = 2
        /\ ConfirmRan(v) /\ req[v].outcome = "NotFound"
        /\ Len(req[v].items) = 2

\* the path as sent has a ".." segment
HasDotDot(path) == \E k \in 1..Len(path.segs) : path.segs[k] = ".."

\* the request of u was turned away as a path violation and built nothing
PathViolation(u) ==
    /\ req[u].outcome \in {"BadRequest", "Forbidden"}
    /\ req[u].created = <<>> /\ req[u].pending = <<>>
    /\ RowsOf(u) = {}

\* C2 as stated: every receipt_path with a ".." segment, and every
\* receipt_path that resolves outside the caller's directory, is rejected as
\* a path violation and persists nothing, also when the ".." segments cancel
\* out inside the caller's own directory.
C2_AsStated ==
    \A u \in Users :
        (ConfirmRan(u)
         /\ (HasDotDot(req[u].path)
             \/ ~UnderUserDir(u, Resolve(req[u].path))))
        => PathViolation(u)

\* C2 (amended): every receipt_path that resolves outside the caller's
\* directory is rejected with BadRequest or Forbidden and persists nothing;
\* a receipt_path with ".." segments is judged by what it resolves to, so
\* one that resolves inside the caller's directory is no path violation: it
\* ends NotFound when no such file exists and is accepted when one does.
C2_ResolvedPathDecides ==
    \A u \in Users :
        ConfirmRan(u) =>
            LET resolved == Resolve(req[u].path)
                inside == Len(resolved) > Len(UserDir(u))
                          /\ SubSeq(resolved, 1, Len(UserDir(u))) = UserDir(u)
            IN
            /\ ~inside => PathViolation(u)
            /\ (inside /\ resolved \notin files)
                  => req[u].outcome = "NotFound"
            /\ (inside /\ resolved \in files)
                  => /\ req[u].outcome \notin PathRejections
                     /\ Len(req[u].created) = Len(req[u].items)

\* a path with ".." under another user's directory was rejected, and a path
\* whose ".." cancel out inside the caller's directory was accepted
C2_Witness ==
    \E u \in Users :
        /\ ConfirmRan(u) /\ HasDotDot(req[u].path)
        /\ UnderUserDir(u, Resolve(req[u].path))
        /\ req[u].committed /\ Len(req[u].items) = 2
        /\ Cardinality(RowsOf(u)) = 2

\* the record returned for the k-th item is the committed row of that item
ReturnedAsPersisted(u, k) ==
    LET r == req[u]
        x == r.result[k] IN
    /\ x.user_id = u
    /\ x.amount = r.items[k].amount
    /\ x.currency = r.items[k].currency
    /\ x.description = r.items[k].description
    /\ "receipt_path" \in DOMAIN x
    /\ x.receipt_path = r.path
    /\ x.id \in CreatedIds(u) /\ x.created_at >= 0 /\ x.updated_at >= 0
    /\ x \in expenses

\* C3 as stated: a confirm with a valid path and N valid items whose first
\* commit attempt succeeds persists exactly N new Expense rows, each with
\* the caller's user_id and the input receipt_path, and returns exactly
\* those N records in input order with their ids and timestamps.
C3_AsStated ==
    \A u \in Users :
        (ConfirmRan(u) /\ req[u].pc = "done"
         /\ req[u].committed /\ req[u].attempts = 1)
        => /\ req[u].outcome = "Created"
           /\ Cardinality(RowsOf(u)) = Len(req[u].items)
           /\ Len(req[u].result) = Len(req[u].items)
           /\ \A k \in 1..Len(req[u].items) : ReturnedAsPersisted(u, k)

\* C4 as stated: when a commit attempt of confirm fails with a transient
\* contention error and is rolled back and a later attempt succeeds, all N
\* items of the request are persisted.
C4_AsStated ==
    \A u \in Users :
        (ConfirmRan(u) /\ req[u].committed /\ req[u].attempts > 1)
        => Cardinality(RowsOf(u)) = Len(req[u].items)

\* C5: the committed rows of one confirm call are, in every reachable
\* state, none or all N of its items; a call that ended with StorageBusy
\* made three attempts and has no committed row.
C5_AllOrNothing ==
    \A u \in Users :
        ConfirmRan(u) =>
            /\ \/ RowsOf(u) = {}
               \/ Cardinality(RowsOf(u)) = Len(req[u].items)
            /\ req[u].outcome = "StorageBusy"
                  => (RowsOf(u) = {} /\ req[u].attempts = 3)
            /\ ~req[u].committed => RowsOf(u) = {}

\* a confirm of two items ended with StorageBusy while the committed rows of
\* another request are in the table
C5_Witness ==
    \E u \in Users :
        /\ ConfirmRan(u) /\ req[u].outcome = "StorageBusy"
        /\ Len(req[u].items) = 2 /\ Len(req[u].created) = 2
        /\ RowsOf(u) = {}

\* C6: confirm makes at most 3 commit attempts, stops at the first
\* successful one, retries only after an OperationalError, sleeps 0.25s
\* after the first failure and 0.5s after the second and not after the
\* third, reports StorageBusy only after 3 failed attempts, and does not
\* retry any other commit error.
C6_BoundedRetry ==
    /\ [](\A u \in Users :
            ConfirmRan(u) =>
                LET r == req[u] IN
                /\ r.attempts <= 3
                /\ r.sleeps \in {<<>>, <<25>>, <<25, 50>>}
                /\ r.pc = "commit"
                      => (r.attempts = Len(r.sleeps) /\ r.attempts < 3
                          /\ ~r.committed)
                /\ r.committed
                      => (r.attempts = Len(r.sleeps) + 1
                          /\ r.pc \in {"respond", "done"})
                /\ r.outcome = "StorageBusy"
                      => (r.attempts = 3 /\ r.sleeps = <<25, 50>>
                          /\ ~r.committed)
                /\ (r.pc = "done" /\ r.attempts > 0 /\ ~r.committed
                    /\ r.outcome # "StorageBusy")
                      => (r.outcome = "InternalError"
                          /\ r.attempts = Len(r.sleeps) + 1))
    /\ [][\A u \in Users :
            (req[u].op = "confirm" /\ req[u].pc = "respond"
             /\ req'[u] # req[u])
            => (req'[u].pc = "done" /\ req'[u].attempts = req[u].attempts
                /\ req'[u].sleeps = req[u].sleeps
                /\ expenses' = expenses)]_vars

\* a confirm failed three times, having slept 0.25s and then 0.5s
C6_Witness ==
    \E u \in Users :
        /\ ConfirmRan(u) /\ req[u].outcome = "StorageBusy"
        /\ req[u].attempts = 3 /\ req[u].sleeps = <<25, 50>>

\* the step is the one in which u's process request stores the artifact
StoresArtifact(u) ==
    /\ req[u].pc \in {"idle", "done"}
    /\ req'[u].op = "process" /\ req'[u].stages = <<"store">>

\* C7: a process call that passes input validation writes exactly one file,
\* the artifact, in the step that stores it, and no step of a process call,
\* whatever the outcome of its stages, writes another file or changes the
\* expense table.
C7_ProcessWritesOneFile ==
    /\ [](\A u \in Users :
            req[u].op = "process" =>
                /\ req[u].stages # <<>>
                      => (req[u].writes = 1
                          /\ Resolve(req[u].receipt_path) \in files)
                /\ req[u].stages = <<>> => req[u].writes = 0)
    /\ [][\A u \in Users :
            (req'[u] # req[u] /\ req'[u].op = "process")
            => /\ expenses' = expenses
               /\ IF StoresArtifact(u)
                  THEN /\ Resolve(req'[u].receipt_path) \notin files
                       /\ files' = files
                                   \cup {Resolve(req'[u].receipt_path)}
                  ELSE files' = files /\ dirs' = dirs]_vars

\* a process call failed in classification after the artifact was stored
C7_Witness ==
    \E u \in Users :
        /\ req[u].op = "process" /\ req[u].pc = "done"
        /\ req[u].outcome = "BadGateway"
        /\ req[u].writes = 1 /\ Cardinality(files) = 1
        /\ expenses = {}

\* content types the endpoint of the request accepts
AllowedFor(op) ==
    IF op = "process" THEN {"image/jpeg", "image/png"}
    ELSE {"image/jpeg", "image/png", "application/pdf"}

\* the upload of u's request is one the endpoint must refuse: a type that
\* is not allowed (in any letter case), no byte, or more than 10 MiB
BadUpload(u) ==
    \/ req[u].ctype \notin AllowedFor(req[u].op) \cup {"IMAGE/PNG"}
    \/ req[u].size = 0
    \/ req[u].size > 10485760

\* C8: an upload with a content type that is not allowed, an empty payload
\* or a payload longer than 10 MiB is rejected with nothing stored: the
\* rejecting step creates no directory and no file and leaves the table
\* unchanged, and no later stage runs; a payload of exactly 10 MiB with an
\* allowed type is stored.
C8_RejectedBeforeStore ==
    /\ [](\A u \in Users :
            (req[u].op \in {"process", "upload"}
             /\ ~(req[u].op = "upload" /\ req[u].outcome = "NotFound"))
            => /\ BadUpload(u)
                    => (req[u].outcome = "BadRequest" /\ req[u].pc = "done"
                        /\ req[u].writes = 0 /\ req[u].stages = <<>>
                        /\ req[u].receipt_path = NoPath)
               /\ ~BadUpload(u)
                    => (req[u].writes = 1
                        /\ Resolve(req[u].receipt_path) \in files
                        /\ ~(req[u].outcome = "BadRequest"
                             /\ req[u].stages = <<>>)))
    /\ [][\A u \in Users :
            (req'[u] # req[u] /\ req'[u].op \in {"process", "upload"}
             /\ req'[u].pc = "done" /\ req'[u].writes = 0)
            => (files' = files /\ dirs' = dirs /\ expenses' = expenses)]_vars

\* an oversize image was refused while the disk is still empty
C8_Witness ==
    \E u \in Users :
        /\ req[u].op = "process" /\ req[u].ctype = "IMAGE/PNG"
        /\ req[u].size > 10485760
        /\ req[u].outcome = "BadRequest" /\ req[u].detail = "too_large"
        /\ files = {} /\ dirs = {}

\* the file name is receipt_<generated value><extension of the type>
GeneratedName(name, ctype) ==
    \E n \in 1..nextId :
        name = "receipt_" \o ToString(n)
                 \o (IF ctype \in {"image/png", "IMAGE/PNG"} THEN ".png"
                     ELSE ".jpg")

\* C10: the receipt_path returned by a successful process call is relative,
\* is uploads/<owner id>/<generated name> with a name that owes nothing to
\* the client's file name, and resolves inside the owner's directory to the
\* stored file, so that the three path checks of confirm pass for the same
\* user; and a confirm by a user with such a path of an existing file is
\* never answered BadRequest, Forbidden or NotFound.
C10_ReturnedPathConfirms ==
    \A u \in Users :
        /\ (req[u].op = "process" /\ req[u].outcome = "Created")
           => LET p == req[u].receipt_path IN
              /\ ~p.abs
              /\ Len(p.segs) = 3
              /\ p.segs[1] = "uploads" /\ p.segs[2] = u
              /\ GeneratedName(p.segs[3], req[u].ctype)
              /\ p.segs[3] # req[u].client_name
              /\ Resolve(p) = Cwd \o <<"uploads", u, p.segs[3]>>
              /\ Resolve(p) \in files
              /\ PathCheck(u, p) = "ok"
        /\ (ConfirmRan(u) /\ ~req[u].path.abs
            /\ Len(req[u].path.segs) = 3
            /\ req[u].path.segs[1] = "uploads" /\ req[u].path.segs[2] = u
            /\ Resolve(req[u].path) \in files)
           => req[u].outcome \notin PathRejections

\* a process call returned a preview of two candidates with its path
C10_Witness ==
    \E u \in Users :
        /\ req[u].op = "process" /\ req[u].outcome = "Created"
        /\ Len(req[u].preview) >= 2
        /\ req[u].preview[1].receipt_path = req[u].receipt_path

\* the stages of process_receipt, in the order of its statements
StageOrder ==
    <<"store", "normalize", "recognize", "extract", "classify", "preview">>

IsPrefix(s, t) == Len(s) <= Len(t) /\ SubSeq(t, 1, Len(s)) = s

\* C11: within one process call the stages run in the order store,
\* normalize, recognize, extract, classify, preview, one per step and each
\* at most once; a stage runs only after all earlier ones have succeeded; a
\* call answers Created only after all six, and a call in which a stage
\* failed runs no later stage and returns no preview.
C11_StagesInOrder ==
    /\ [](\A u \in Users :
            req[u].op = "process" =>
                /\ IsPrefix(req[u].stages, StageOrder)
                /\ req[u].outcome = "Created"
                      <=> (req[u].pc = "done" /\ req[u].stages = StageOrder)
                /\ req[u].outcome # "Created" => req[u].preview = <<>>
                /\ (req[u].pc # "done" /\ req[u].stages # <<>>)
                      => req[u].pc = StageOrder[Len(req[u].stages) + 1])
    /\ [][\A u \in Users :
            (req'[u] # req[u] /\ req'[u].op = "process")
            => IF req[u].pc \in {"idle", "done"}
               THEN req'[u].stages \in {<<>>, <<"store">>}
               ELSE /\ req[u].op = "process"
                    /\ Len(req'[u].stages) = Len(req[u].stages) + 1
                    /\ IsPrefix(req[u].stages, req'[u].stages)]_vars

\* one process call failed in recognition, with no preview, while another
\* ran all six stages
C11_Witness ==
    \E u, v \in Users :
        /\ req[u].op = "process" /\ req[u].pc = "done"
        /\ req[u].stages = <<"store", "normalize", "recognize">>
        /\ req[u].outcome = "InternalError" /\ req[u].preview = <<>>
        /\ req[v].op = "process" /\ req[v].outcome = "Created"
        /\ req[v].stages = StageOrder /\ Len(req[v].preview) = 3

\* the ways in which the classification is unavailable
Unavailable ==
    {"Missing OPENAI_API_KEY", "LLM dependencies missing", "LLM call failed"}

\* C12 as stated: when the classification is unavailable (no API key, no
\* model libraries, or a failed model call) the process call still returns
\* a preview of all extracted candidates, each with category OTHER.
C12_AsStated ==
    \A u \in Users :
        (req[u].op = "process" /\ req[u].pc = "done"
         /\ req[u].detail \in Unavailable)
        => /\ req[u].outcome = "Created"
           /\ Len(req[u].preview) = Len(req[u].cands)
           /\ \A k \in 1..Len(req[u].preview) :
                 req[u].preview[k].category = "OTHER"

\* a process call has returned this path to user u
WasReturned(u, path) ==
    \E p \in previews :
        p.user = u /\ Resolve(p.receipt_path) = Resolve(path)

\* C13 as stated: confirm commits for a receipt_path only if an earlier
\* process call returned that receipt_path to the same user.
C13_AsStated ==
    \A u \in Users :
        (ConfirmRan(u) /\ req[u].committed) => WasReturned(u, req[u].path)

\* C13 (amended): confirm builds and commits Expense rows for a
\* receipt_path only if it resolves to an existing file strictly inside the
\* caller's directory; every such file was written there by a process or
\* upload_receipt call of that user, whether or not that call went on to
\* return the path.
C13_ConfirmNeedsStoredFile ==
    /\ [](\A u \in Users :
            (ConfirmRan(u)
             /\ (req[u].committed \/ req[u].created # <<>>
                 \/ req[u].pc \in {"commit", "respond"}))
            => LET resolved == Resolve(req[u].path) IN
               /\ resolved \in files
               /\ Len(resolved) = Len(Cwd) + 3
               /\ SubSeq(resolved, 1, Len(Cwd) + 2)
                     = Cwd \o <<"uploads", u>>)
    /\ [][files' # files =>
            \E u \in Users :
                /\ req'[u].op \in {"process", "upload"}
                /\ req'[u] # req[u]
                /\ req'[u].writes = 1
                /\ files' = files \cup {Resolve(req'[u].receipt_path)}
                /\ Len(req'[u].receipt_path.segs) = 3
                /\ SubSeq(req'[u].receipt_path.segs, 1, 2)
                      = <<"uploads", u>>]_vars

\* a confirm committed rows for a stored file whose path no process call
\* has returned
C13_Witness ==
    \E u \in Users :
        /\ ConfirmRan(u) /\ req[u].committed /\ RowsOf(u) # {}
        /\ Resolve(req[u].path) \in files
        /\ ~WasReturned(u, req[u].path)

\* the closed set of categories
ClosedCategories ==
    {"FOOD", "GROCERIES", "TRANSPORT", "ENTERTAINMENT", "HEALTH",
     "UTILITIES", "RENT", "OTHER"}

\* C14 as stated: every category in a preview item returned by process and
\* every category of an Expense persisted by confirm is in the closed set.
C14_AsStated ==
    \A u \in Users :
        /\ req[u].op = "process"
           => \A k \in 1..Len(req[u].preview) :
                 req[u].preview[k].category \in ClosedCategories
        /\ ConfirmRan(u)
           => \A e \in RowsOf(u) : e.category \in ClosedCategories

\* C15: every Expense that confirm builds, and every row it commits, has
\* the date supplied with its item, unchanged, or, when the item has none,
\* the calendar date of the confirm call, whatever date the preview showed.
C15_ConfirmDates ==
    \A u \in Users :
        ConfirmRan(u) =>
            /\ \A k \in 1..Len(req[u].created) :
                  LET x == req[u].created[k]
                      given == req[u].items[k].expense_date IN
                  x.expense_date =
                      IF given = -1 THEN x.created_at \div TicksPerDay
                      ELSE given
            /\ \A e \in RowsOf(u) :
                  \E k \in 1..Len(req[u].created) : req[u].created[k] = e

\* an item without a date, previewed with the default date of day N, was
\* committed by a confirm on day N + 1 with the date N + 1, next to an item
\* committed with the date supplied
C15_Witness ==
    \E u \in Users :
        /\ ConfirmRan(u) /\ req[u].committed /\ Len(req[u].items) = 2
        /\ \E p \in previews :
              /\ p.user = u /\ p.receipt_path = req[u].path
              /\ \E e \in RowsOf(u) :
                    /\ e.id = req[u].created[1].id
                    /\ req[u].items[1].expense_date = -1
                    /\ e.expense_date = p.day + 1
        /\ \E e \in RowsOf(u) :
              /\ e.id = req[u].created[2].id
              /\ e.expense_date = req[u].items[2].expense_date
              /\ e.expense_date # e.created_at \div TicksPerDay

\* the classification stage of u's process call has run
Classified(u) == req[u].op = "process" /\ Len(req[u].stages) >= 5

\* C16 as stated: with no candidate the classification returns the empty
\* mapping without calling the model and without raising, in every
\* configuration, so that the process call returns an empty preview.
C16_AsStated ==
    \A u \in Users :
        (Classified(u) /\ req[u].cands = <<>>)
        => /\ req[u].llm_calls = <<>>
           /\ req[u].category_map = <<>>
           /\ req[u].outcome \in {"none", "Created"}
           /\ req[u].pc = "done" => req[u].preview = <<>>

\* the descriptions of the candidates, in order
DescriptionsOf(items) == [k \in 1..Len(items) |-> items[k].description]

\* position of the first occurrence of d in seq
FirstAt(seq, d) ==
    CHOOSE i \in 1..Len(seq) :
        seq[i] = d /\ \A j \in 1..(i - 1) : seq[j] # d

\* batch holds each distinct element of descs once, in the order of the
\* first occurrences
IsDedupOf(batch, descs) ==
    /\ {batch[i] : i \in 1..Len(batch)} = {descs[i] : i \in 1..Len(descs)}
    /\ \A i, j \in 1..Len(batch) : i # j => batch[i] # batch[j]
    /\ \A i, j \in 1..Len(batch) :
          i < j => FirstAt(descs, batch[i]) < FirstAt(descs, batch[j])

\* C17: a classification of a non-empty list of descriptions that is
\* configured (API key set, libraries installed) makes exactly one call to
\* the model, with a batch that holds each distinct description once in
\* first-occurrence order, and no classification makes more than one call;
\* the candidates and the preview items of one process call that have the
\* same description have the same category.
C17_OneBatchPerReceipt ==
    \A u \in Users :
        Classified(u) =>
            LET descs == DescriptionsOf(req[u].cands) IN
            /\ Len(req[u].llm_calls) <= 1
            /\ (descs # <<>>
                /\ req[u].detail \notin {"Missing OPENAI_API_KEY",
                                         "LLM dependencies missing"})
               => /\ Len(req[u].llm_calls) = 1
                  /\ IsDedupOf(req[u].llm_calls[1], descs)
            /\ \A j, k \in 1..Len(req[u].cands) :
                  req[u].cands[j].description = req[u].cands[k].description
                  => req[u].cands[j].category = req[u].cands[k].category
            /\ \A j, k \in 1..Len(req[u].preview) :
                  req[u].preview[j].description
                      = req[u].preview[k].description
                  => req[u].preview[j].category = req[u].preview[k].category

\* three candidates with two distinct descriptions were classified in one
\* call of two descriptions, and both occurrences of the first got FOOD
C17_Witness ==
    \E u \in Users :
        /\ Classified(u) /\ req[u].outcome = "Created"
        /\ DescriptionsOf(req[u].cands) = <<"Coffee", "Bus", "Coffee">>
        /\ req[u].llm_calls = << <<"Coffee", "Bus">> >>
        /\ req[u].preview[1].category = "FOOD"
        /\ req[u].preview[3].category = "FOOD"
        /\ req[u].preview[2].category = "OTHER"

\* the recognition stage of u's process call has run
Recognized(u) == req[u].op = "process" /\ Len(req[u].stages) >= 3

\* the call of u ended in the recognition stage
RecognitionFailed(u) ==
    /\ req[u].pc = "done" /\ Len(req[u].stages) = 3
    /\ req[u].outcome = "InternalError"

\* C18: recognition invokes the engine once with "spa+eng" and at most once
\* more with "eng"; the second invocation happens exactly when the first
\* raised TesseractError; any other error of the first invocation fails the
\* call without a second invocation, an error of the second fails the call,
\* and a text, empty or not, is a success.
C18_RecognitionFallback ==
    \A u \in Users :
        Recognized(u) =>
            LET calls == req[u].ocr_calls
                errors == req[u].ocr_errors IN
            /\ calls \in {<<"spa+eng">>, <<"spa+eng", "eng">>}
            /\ Len(calls) = 2
                  <=> (errors # <<>> /\ errors[1] = "TesseractError")
            /\ (errors # <<>> /\ errors[1] # "TesseractError")
                  => (Len(calls) = 1 /\ RecognitionFailed(u))
            /\ Len(errors) = 2 => RecognitionFailed(u)
            /\ Len(errors) < Len(calls) => ~RecognitionFailed(u)
            /\ Len(errors) = Len(calls) => RecognitionFailed(u)

\* the fallback returned an empty text and the call went on to return an
\* empty preview, while another call failed in the first invocation
C18_Witness ==
    \E u, v \in Users :
        /\ Recognized(u) /\ req[u].ocr_calls = <<"spa+eng", "eng">>
        /\ req[u].ocr_errors = <<"TesseractError">>
        /\ req[u].text = <<>> /\ req[u].outcome = "Created"
        /\ Recognized(v) /\ req[v].ocr_calls = <<"spa+eng">>
        /\ req[v].ocr_errors = <<"error">> /\ RecognitionFailed(v)

\* u's request is an application of the structured-model extractor
ParsedWithLlm(u) == req[u].op = "parse_llm"

\* C19 as stated: the structured-model extractor returns a candidate list
\* only when the reply of the model parses as a JSON array; every other
\* JSON value, null included, and every unparsable reply is rejected.
C19_AsStated ==
    \A u \in Users :
        ParsedWithLlm(u) =>
            /\ req[u].outcome = "Returned" => req[u].reply = "array"
            /\ req[u].reply \in {"object", "null", "number", "string",
                                 "boolean", "unparsable"}
                  => (req[u].outcome = "InternalError"
                      /\ req[u].cands = <<>>)

\* C19 (amended): the structured-model extractor returns a candidate list
\* only when the reply of the model parses as a JSON array or as null, and
\* for null the list is empty; a top-level object, number, string or
\* boolean, an unparsable reply and an empty reply are rejected with an
\* error and yield no candidate list.
C19_ArrayOrNull ==
    \A u \in Users :
        ParsedWithLlm(u) =>
            /\ req[u].outcome = "Returned"
                  => req[u].reply \in {"array", "null"}
            /\ req[u].reply = "null"
                  => (req[u].outcome = "Returned" /\ req[u].cands = <<>>)
            /\ req[u].reply \in {"object", "number", "string", "boolean",
                                 "unparsable", "empty"}
                  => (req[u].outcome = "InternalError"
                      /\ req[u].cands = <<>>)
            /\ req[u].outcome # "Returned" => req[u].cands = <<>>

\* an array of two elements was returned as two candidates, and a reply
\* that is a JSON object was rejected
C19_Witness ==
    \E u, v \in Users :
        /\ ParsedWithLlm(u) /\ req[u].reply = "array"
        /\ req[u].outcome = "Returned" /\ Len(req[u].cands) = 2
        /\ ParsedWithLlm(v) /\ req[v].reply = "object"
        /\ req[v].outcome = "InternalError" /\ req[v].cands = <<>>

\* amount > 0 and a currency of three letters A-Z
AmountAndCurrencyOk(item) ==
    /\ item.amount > 0
    /\ Len(item.currency) = 3
    /\ \A k \in 1..3 :
          item.currency[k] \in
              {"A", "B", "C", "D", "E", "F", "G", "H", "I", "J", "K", "L",
               "M", "N", "O", "P", "Q", "R", "S", "T", "U", "V", "W", "X",
               "Y", "Z"}

\* C20: every candidate in a list returned by the pattern extractor or by
\* the structured-model extractor, and every item of a preview returned by
\* process, has amount > 0 and a currency of exactly three letters A-Z.
C20_CandidatesValid ==
    \A u \in Users :
        req[u].op \in {"process", "parse_llm"} =>
            /\ \A k \in 1..Len(req[u].cands) :
                  AmountAndCurrencyOk(req[u].cands[k])
            /\ \A k \in 1..Len(req[u].preview) :
                  AmountAndCurrencyOk(req[u].preview[k])

\* the structured-model extractor rejected an array with a lower-case
\* currency, and a process call returned a preview of three candidates of
\* the pattern extractor, which had skipped a match with amount 0
C20_Witness ==
    \E u, v \in Users :
        /\ ParsedWithLlm(u) /\ req[u].reply = "array"
        /\ req[u].detail = "validation error" /\ req[u].cands = <<>>
        /\ req[v].op = "process" /\ req[v].outcome = "Created"
        /\ Len(req[v].text) = 4 /\ Len(req[v].preview) = 3

\* the pattern extractor has run in u's process call
Extracted(u) == req[u].op = "process" /\ Len(req[u].stages) >= 4

\* a match the claim counts as a candidate: a positive amount, and content
\* the candidate type accepts
KeptMatch(m) ==
    /\ m.amount_int * 100 + m.amount_dec > 0
    /\ Len(m.desc) >= 1 /\ Len(m.desc) <= 255

\* C21 as stated: the pattern extractor never raises; its output has, in
\* text order, one candidate per match with a positive amount, with
\* currency CAD, category OTHER, no date and the description of the match;
\* a match with a non-positive amount, or with content the candidate type
\* would refuse (a description longer than 255 characters), is skipped
\* without an error.
C21_AsStated ==
    \A u \in Users :
        Extracted(u) =>
            /\ ~(req[u].pc = "done" /\ Len(req[u].stages) = 4)
            /\ req[u].pc = "classify" =>
                  LET kept == SelectSeq(req[u].text, KeptMatch) IN
                  /\ Len(req[u].cands) = Len(kept)
                  /\ \A k \in 1..Len(kept) :
                        /\ req[u].cands[k].description = kept[k].desc
                        /\ req[u].cands[k].amount
                              = kept[k].amount_int * 100 + kept[k].amount_dec
                        /\ req[u].cands[k].currency = <<"C", "A", "D">>
                        /\ req[u].cands[k].category = "OTHER"
                        /\ req[u].cands[k].expense_date = -1

\* C22 as stated: for every angle the minimum-area-rectangle routine can
\* report, the rotation angle of the deskew lies in (-45, 45] degrees; and
\* when the raster has no foreground pixel no rotation is applied and the
\* normalization does not fail.
C22_AsStated ==
    \A u \in Users :
        req[u].op = "normalize_raster" =>
            /\ req[u].outcome = "Returned"
            /\ req[u].rotated
                  => (req[u].rotation > -45 /\ req[u].rotation <= 45)
            /\ ~req[u].foreground => ~req[u].rotated

\* the step is (part of) a call of user u
StepOf(u) == req'[u] # req[u]

\* after the step, u's call has returned and was aimed at a row that is not
\* a live row of u: a row of another user, or a row of u already deleted
AimedAtForeign(u) ==
    /\ req'[u].pc = "done"
    /\ req'[u].op \in {"get", "update", "delete", "upload"}
    /\ \E e \in expenses : /\ e.id = req'[u].expense_id
                           /\ e.user_id # u

\* the rows of other users are as they were, and every row written by the
\* step carries the user_id of the caller
OwnRowsOnly(u) ==
    /\ \A e \in expenses : e.user_id # u => e \in expenses'
    /\ \A e \in expenses' \ expenses : e.user_id = u

\* what u's call returned are live rows of u
ReadsOwnLiveRows(u) ==
    (req'[u].pc = "done" /\ req'[u].op \in {"list", "get"}) =>
        \A k \in 1..Len(req'[u].result) :
            /\ req'[u].result[k] \in expenses'
            /\ req'[u].result[k].user_id = u
            /\ req'[u].result[k].deleted_at = -1

UpsertCommitted(s) ==
    /\ breq[s].pc = "commit"
    /\ breq'[s].pc = "done" /\ breq'[s].outcome = "Created"

\* the Budget rows of the (user_id, month, category) of session s's call
RowsOfKey(s) ==
    {b \in budgets' : /\ b.user_id = breq[s].user
                      /\ b.month = breq[s].month
                      /\ b.category = breq[s].category}

====
